---- MODULE Spec2Model ----
(***************************************************************************)
(* Model of the run-length-example HTTP server.  The repository holds two  *)
(* builds of the server:                                                   *)
(*   "epoch": src/unnamed/part_002 (query bounds are unix seconds, the     *)
(*            insert handler re-parses a validated line by byte offset),   *)
(*   "mask":  src/cmd/server/main.go (query bounds use the date-time mask, *)
(*            the insert handler reads the regexp capture groups).         *)
(* The variable build says which of the two programs is running.           *)
(***************************************************************************)
EXTENDS Integers, Sequences, FiniteSets, TLC

(* ---- program constants ------------------------------------------------ *)
sequenceFrequency == 15
maxNumberOfPoints == 380
aggregations == <<15, 30, 60, 120, 300, 600, 900, 1200, 1800, 3600, 7200, 14400, 43200, 86400>>
statusOK == "ok"
statusWarning == "warning"
statusError == "error"
StatusOK == 200
StatusBadRequest == 400
StatusMethodNotAllowed == 405
StatusInternalServerError == 500
Builds == {"epoch", "mask"}

(* ---- bounds of the model ---------------------------------------------- *)
\* query starts range over -MaxStart..MaxStart (every residue modulo 15, both signs)
MaxStart == 15
\* query ends range over each selection threshold plus -MaxStart..MaxSlack
MaxSlack == 16
\* an insert body has at most MaxLines lines
MaxLines == 3
\* a run of the server sees at most MaxTicks ticks of the dump timer,
\* MaxTrims ticks of the retention timer and MaxRequests requests
MaxTicks == 2
MaxTrims == 1
MaxRequests == 1

VARIABLES
    build,      \* which program runs: "epoch" or "mask"
    store,      \* the sequence store: existing key -> set of sample instants
    qReq,       \* the GET /query/ request being handled
    qResp,      \* the response written by handlerQuery (NoQueryResponse before)
    iReq,       \* the POST /insert/ request being handled
    iBatch,     \* what handlerInsert submitted to Store.Batch, and the store's verdicts
    iResp,      \* the response written by handlerInsert (NoInsertResponse before)
    twin,       \* the outcome of the mask build's handlerInsert on the request the
                \* epoch build handled, when both are run side by side (NoTwin else)
    cfg,        \* the flags -i (dumpInterval) and -r (retentionPolicy)
    file,       \* the dump file on disk
    file0,      \* the dump file as the process found it
    pc,         \* where main and the three goroutines stand
    startup,    \* how the store was initialised, or why main gave up
    dumpBuf,    \* dump(): the buffer each caller got from Store.Dump
    listener,   \* "none", "open" (accepting) or "closed"
    inflight,   \* requests accepted and not yet answered
    ctxDone,    \* the 3-second context of the shutdown has expired
    drain,      \* how httpServer.Shutdown returned
    counts      \* ticks, trims and requests so far; the shutdown's calls of dump
                \* and their returns; file writes since the signal

queryVars == <<qReq, qResp>>
insertVars == <<iReq, iBatch, iResp, twin>>
lifeVars == <<cfg, file, file0, pc, startup, dumpBuf, listener, inflight,
              ctxDone, drain, counts>>
vars == <<build, store, queryVars, insertVars, lifeVars>>

(* ---- Go arithmetic ---------------------------------------------------- *)
\* Go's / and % truncate toward zero
GoDiv(a, b) == IF a >= 0 THEN a \div b ELSE -((-a) \div b)
GoRem(a, b) == IF a >= 0 THEN a % b ELSE -((-a) % b)

ceilInt64(x, step) ==
    LET r == GoRem(x, step)
    IN  IF r # 0 THEN x + step - r ELSE x

(* ---- the store, as the handlers use it --------------------------------- *)
NoKeys == [k \in {} |-> {}]
StoreGet(s, key) == key \in DOMAIN s

(* ---- newQueryArgs ------------------------------------------------------ *)
\* a selection loop that compares with < where the code has <=
RECURSIVE aggregationLoopStrict(_, _)
aggregationLoopStrict(scope, i) ==
    IF i > Len(aggregations) THEN 0
    ELSE IF GoDiv(scope, aggregations[i]) < maxNumberOfPoints THEN aggregations[i]
    ELSE aggregationLoopStrict(scope, i + 1)

\* the selection loop: first table entry whose point count fits, 0 if none
RECURSIVE aggregationLoop(_, _)
aggregationLoop(scope, i) ==
    IF i > Len(aggregations) THEN 0
    ELSE IF GoDiv(scope, aggregations[i]) <= maxNumberOfPoints THEN aggregations[i]
    ELSE aggregationLoop(scope, i + 1)

QueryArgsErr(msg) == [err |-> msg, start |-> 0, end |-> 0, interval |-> 0]

\* the tail shared by both builds: x and y are the instants compared
queryArgsFrom(x, y) ==
    IF x > y THEN QueryArgsErr("range is not valid")
    ELSE LET scope == y - x
             aggregation == aggregationLoop(scope, 1)
         IN  IF aggregation = 0 THEN QueryArgsErr("range is too large")
             ELSE [err |-> "", start |-> x, end |-> y, interval |-> aggregation]

\* a newQueryArgs that validates the range on the raw start and normalizes
\* the start afterwards
newQueryArgsValidateFirst(start, end) ==
    IF ~start.ok THEN QueryArgsErr("error parsing start date")
    ELSE IF ~end.ok THEN QueryArgsErr("error parsing end date")
    ELSE IF start.v > end.v THEN QueryArgsErr("range is not valid")
    ELSE [queryArgsFrom(start.v, end.v) EXCEPT !.start = ceilInt64(start.v, sequenceFrequency)]

\* start and end are the outcomes of strconv.Atoi on the raw parameters:
\* [ok |-> FALSE] for text Atoi rejects, [ok |-> TRUE, v |-> n] otherwise
newQueryArgs(start, end) ==
    IF ~start.ok THEN QueryArgsErr("error parsing start date")
    ELSE IF ~end.ok THEN QueryArgsErr("error parsing end date")
    ELSE queryArgsFrom(ceilInt64(start.v, sequenceFrequency), end.v)

\* the mask build: start and end are the outcomes of time.Parse(maskTime, .),
\* as unix seconds; the start is not normalized
newQueryArgsMask(start, end) ==
    IF ~start.ok THEN QueryArgsErr("error parsing start date")
    ELSE IF ~end.ok THEN QueryArgsErr("error parsing end date")
    ELSE queryArgsFrom(start.v, end.v)

(* ---- handlerQuery ------------------------------------------------------ *)
\* queried: Store.Query was invoked while handling the request
QueryResponse(code, status, message, queried, args) ==
    [code |-> code, status |-> status, message |-> message, queried |-> queried, args |-> args]

\* req.queryErr is the outcome of Store.Query for this request, an input
handlerQuery(s, req) ==
    IF req.method # "GET"
    THEN QueryResponse(StatusBadRequest, statusError, "method is not allowed", FALSE, QueryArgsErr("unset"))
    ELSE LET args == newQueryArgs(req.start, req.end)
         IN  IF args.err # ""
             THEN QueryResponse(StatusBadRequest, statusError, args.err, FALSE, args)
             ELSE IF ~StoreGet(s, req.key)
             THEN QueryResponse(StatusBadRequest, statusError, "key does not exist", FALSE, args)
             ELSE IF req.queryErr
             THEN QueryResponse(StatusInternalServerError, statusError, "an unexpected error occurred", TRUE, args)
             ELSE QueryResponse(StatusOK, statusOK, "rows", TRUE, args)

handlerQueryMask(s, req) ==
    IF req.method # "GET"
    THEN QueryResponse(StatusBadRequest, statusError, "method is not allowed", FALSE, QueryArgsErr("unset"))
    ELSE LET args == newQueryArgsMask(req.start, req.end)
         IN  IF args.err # ""
             THEN QueryResponse(StatusBadRequest, statusError, args.err, FALSE, args)
             ELSE IF req.queryErr
             THEN QueryResponse(StatusInternalServerError, statusError, "error executing query", TRUE, args)
             ELSE QueryResponse(StatusOK, statusOK, "rows", TRUE, args)

(* ---- text: a byte string is a sequence of one-character strings --------- *)
Digits == {"0", "1", "2", "3", "4", "5", "6", "7", "8", "9"}
Letters == {"a", "b", "c", "d", "e", "f", "g", "h", "i", "j", "k", "l", "m", "n", "o", "p", "q", "r", "s", "t", "u", "v", "w", "x", "y", "z", "A", "B", "C", "D", "E", "F", "G", "H", "I", "J", "K", "L", "M", "N", "O", "P", "Q", "R", "S", "T", "U", "V", "W", "X", "Y", "Z"}
\* the class \w of Go's regexp: [0-9A-Za-z_]
WordChars == Digits \cup Letters \cup {"_"}
DigitValue(c) ==
    CASE c = "0" -> 0 [] c = "1" -> 1 [] c = "2" -> 2 [] c = "3" -> 3 [] c = "4" -> 4
      [] c = "5" -> 5 [] c = "6" -> 6 [] c = "7" -> 7 [] c = "8" -> 8 [] c = "9" -> 9

\* bytes.IndexByte, 0-based, -1 when absent
RECURSIVE IndexByteFrom(_, _, _)
IndexByteFrom(line, c, i) ==
    IF i > Len(line) THEN -1
    ELSE IF line[i] = c THEN i - 1
    ELSE IndexByteFrom(line, c, i + 1)
IndexByte(line, c) == IndexByteFrom(line, c, 1)

\* line[from:], from 0-based
SliceFrom(line, from) == SubSeq(line, from + 1, Len(line))
\* line[:to], to 0-based and exclusive
SliceTo(line, to) == SubSeq(line, 1, to)

\* bytes.Split(body, "\n"): always at least one line, the separators dropped
RECURSIVE Split(_)
Split(body) ==
    LET p == IndexByte(body, "\n")
    IN  IF p < 0 THEN <<body>>
        ELSE <<SliceTo(body, p)>> \o Split(SliceFrom(body, p + 1))

(* ---- strconv.Atoi on an int of 64 bits ---------------------------------- *)
MaxInt64Digits == <<"9", "2", "2", "3", "3", "7", "2", "0", "3", "6", "8", "5", "4", "7", "7", "5", "8", "0", "7">>
MinInt64Digits == <<"9", "2", "2", "3", "3", "7", "2", "0", "3", "6", "8", "5", "4", "7", "7", "5", "8", "0", "8">>
RECURSIVE StripZeros(_)
StripZeros(ds) == IF Len(ds) > 1 /\ Head(ds) = "0" THEN StripZeros(Tail(ds)) ELSE ds
\* a <= b for digit strings of one length
RECURSIVE DigitsLeq(_, _)
DigitsLeq(a, b) ==
    IF a = <<>> THEN TRUE
    ELSE IF DigitValue(Head(a)) < DigitValue(Head(b)) THEN TRUE
    ELSE IF DigitValue(Head(a)) > DigitValue(Head(b)) THEN FALSE
    ELSE DigitsLeq(Tail(a), Tail(b))
MagnitudeFits(ds, limit) ==
    LET t == StripZeros(ds)
    IN  Len(t) < Len(limit) \/ (Len(t) = Len(limit) /\ DigitsLeq(t, limit))
RECURSIVE DecimalValue(_, _)
DecimalValue(ds, acc) ==
    IF ds = <<>> THEN acc ELSE DecimalValue(Tail(ds), 10 * acc + DigitValue(Head(ds)))

AtoiErr == [ok |-> FALSE, v |-> 0]
Atoi(s) ==
    LET neg == s # <<>> /\ Head(s) = "-"
        ds == IF s # <<>> /\ Head(s) \in {"+", "-"} THEN Tail(s) ELSE s
    IN  IF ds = <<>> \/ \E i \in 1..Len(ds) : ds[i] \notin Digits THEN AtoiErr
        ELSE IF ~MagnitudeFits(ds, IF neg THEN MinInt64Digits ELSE MaxInt64Digits) THEN AtoiErr
        ELSE [ok |-> TRUE, v |-> IF neg THEN 0 - DecimalValue(ds, 0) ELSE DecimalValue(ds, 0)]

(* ---- time ---------------------------------------------------------------- *)
\* Time.Truncate(d) of an instant given in unix seconds: down to a multiple of d
\* counted from the zero Time, which lies 62135596800 s = 15 * 4142373120 s
\* before the unix epoch, so for d = 15 s the multiples are those of the epoch
\* (TruncateUp: a rounding up to the multiple instead)
TruncateUp(t, d) == t + ((d - (t % d)) % d)
Truncate(t, d) == t - (t % d)

(* ---- validStatement ------------------------------------------------------ *)
\* ^\w+ [012](?: \d+)?$ with the key in line[1..p]
MatchAt(line, p) ==
    /\ p >= 1
    /\ Len(line) >= p + 2
    /\ \A i \in 1..p : line[i] \in WordChars
    /\ line[p + 1] = " "
    /\ line[p + 2] \in {"0", "1", "2"}
    /\ \/ Len(line) = p + 2
       \/ /\ Len(line) >= p + 4
          /\ line[p + 3] = " "
          /\ \A i \in (p + 4)..Len(line) : line[i] \in Digits

\* validStatement.Match
validStatementMatch(line) == \E p \in 1..Len(line) : MatchAt(line, p)

\* validStatement.FindSubmatch of the mask build, ^(\w+) ([012])(?: (\d+))?$:
\* groups 1..3, group 3 empty when the optional part took no part in the match
FindSubmatch(line) ==
    IF ~validStatementMatch(line) THEN <<>>
    ELSE LET p == CHOOSE q \in 1..Len(line) : MatchAt(line, q)
         IN  <<SubSeq(line, 1, p), <<line[p + 2]>>, SubSeq(line, p + 4, Len(line))>>

(* ---- handlerInsert ------------------------------------------------------- *)
\* the state constants of the sequence package, by name
StateInactive == "StateInactive"
StateActive == "StateActive"
StateUnknown == "StateUnknown"

Statement(key, valueTimestamp, value, sequenceTimestamp) ==
    [Key |-> key, Timestamp |-> valueTimestamp, Value |-> value, Type |-> "StatementAdd",
     CreateIfNotExists |-> TRUE, CreateWithTimestamp |-> sequenceTimestamp,
     CreateWithFrequency |-> sequenceFrequency]

\* the switch on the state digit; "none" stands for the default branch (log.Panic)
StateOf(c) ==
    CASE c = "0" -> StateInactive [] c = "1" -> StateActive [] c = "2" -> StateUnknown
      [] OTHER -> "none"

Parsed(panic, statements, mapping, n) ==
    [panic |-> panic, statements |-> statements, mapping |-> mapping, n |-> n]

\* first loop of the epoch build: mapping has len(lines) entries, the 0-based
\* indices of the n matching lines first, zeros after them
RECURSIVE matchingLines(_, _)
matchingLines(lines, i) ==
    IF i > Len(lines) THEN <<>>
    ELSE IF validStatementMatch(lines[i]) THEN <<i - 1>> \o matchingLines(lines, i + 1)
    ELSE matchingLines(lines, i + 1)

\* (statementByOffsetKeyToSpace: a pass that cuts the key at line[:p+1], the
\* space included)
statementByOffsetKeyToSpace(line, now) ==
    LET p == IndexByte(line, " ")
        value == StateOf(line[p + 2])
        explicit == Len(line) > p + 2
        x == IF explicit THEN Atoi(SliceFrom(line, p + 3)) ELSE AtoiErr
        valueTimestamp == IF explicit THEN x.v ELSE now
    IN  [panic |-> value = "none" \/ (explicit /\ ~x.ok),
         statement |-> Statement(SliceTo(line, p + 1), valueTimestamp, value,
                                 Truncate(valueTimestamp, sequenceFrequency))]

\* one pass of the second loop of the epoch build: [panic, statement]
statementByOffset(line, now) ==
    LET p == IndexByte(line, " ")
        value == StateOf(line[p + 2])
        explicit == Len(line) > p + 2
        x == IF explicit THEN Atoi(SliceFrom(line, p + 3)) ELSE AtoiErr
        valueTimestamp == IF explicit THEN x.v ELSE now
    IN  [panic |-> value = "none" \/ (explicit /\ ~x.ok),
         statement |-> Statement(SliceTo(line, p), valueTimestamp, value,
                                 Truncate(valueTimestamp, sequenceFrequency))]

parseByOffset(lines, now) ==
    LET matched == matchingLines(lines, 1)
        n == Len(matched)
        mapping == matched \o [j \in 1..(Len(lines) - n) |-> 0]
        built == [i \in 1..n |-> statementByOffset(lines[mapping[i] + 1], now)]
    IN  Parsed(\E i \in 1..n : built[i].panic, [i \in 1..n |-> built[i].statement], mapping, n)

\* one pass of the loop of the mask build on a line that matched
statementByGroups(match, now) ==
    LET value == StateOf(match[2][1])
        explicit == Len(match[3]) > 0
        x == IF explicit THEN Atoi(match[3]) ELSE AtoiErr
        valueTimestamp == IF explicit THEN x.v ELSE now
    IN  [panic |-> value = "none" \/ (explicit /\ ~x.ok),
         statement |-> Statement(match[1], valueTimestamp, value,
                                 Truncate(valueTimestamp, sequenceFrequency))]

\* the loop of the mask build; n is the number of lines skipped by the grammar
RECURSIVE parseByGroupsFrom(_, _, _)
parseByGroupsFrom(lines, now, i) ==
    IF i > Len(lines) THEN Parsed(FALSE, <<>>, <<>>, 0)
    ELSE LET match == FindSubmatch(lines[i])
             rest == parseByGroupsFrom(lines, now, i + 1)
         IN  IF match = <<>> THEN [rest EXCEPT !.n = @ + 1]
             ELSE LET one == statementByGroups(match, now)
                  IN  Parsed(one.panic \/ rest.panic, <<one.statement>> \o rest.statements,
                             <<i - 1>> \o rest.mapping, rest.n)
parseByGroups(lines, now) == parseByGroupsFrom(lines, now, 1)

\* Store.Batch as the handlers see it: rejected is the set of positions of the
\* batch whose ErrorVars entry is not nil; HasErrors() is rejected # {}
BatchHasErrors(rejected) == rejected # {}
RECURSIVE StoreBatchFrom(_, _, _, _)
StoreBatchFrom(s, statements, rejected, i) ==
    IF i > Len(statements) THEN s
    ELSE IF i \in rejected THEN StoreBatchFrom(s, statements, rejected, i + 1)
    ELSE LET st == statements[i]
             at == Truncate(st.Timestamp, st.CreateWithFrequency)
             old == IF st.Key \in DOMAIN s THEN s[st.Key] ELSE {}
             next == [k \in DOMAIN s \cup {st.Key} |->
                         IF k = st.Key THEN old \cup {at} ELSE s[k]]
         IN  StoreBatchFrom(next, statements, rejected, i + 1)
StoreBatch(s, statements, rejected) == StoreBatchFrom(s, statements, rejected, 1)

\* kind: "written" (writeResponse ran), "panic" (log.Panic unwound the handler:
\* net/http recovers it and drops the connection, nothing is written), "none"
InsertResponse(kind, code, status, message, processed, total) ==
    [kind |-> kind, code |-> code, status |-> status, message |-> message,
     processed |-> processed, total |-> total]
NoInsertResponse == InsertResponse("none", 0, "", "", 0, 0)
InsertPanic == InsertResponse("panic", 0, "", "poor validation panic", 0, 0)
NoBatch == [submitted |-> FALSE, statements |-> <<>>, mapping |-> <<>>, rejected |-> {}]

\* the part of handlerInsert before the body is split
insertRefusal(req) ==
    IF req.method # "POST"
    THEN InsertResponse("written", StatusMethodNotAllowed, statusError, "method not allowed", 0, 0)
    ELSE IF ~req.readOk
    THEN InsertResponse("written", StatusBadRequest, statusError, "error reading request body", 0, 0)
    ELSE NoInsertResponse

\* the count and status of the epoch build, after Store.Batch
RECURSIVE countAccepted(_, _, _)
countAccepted(n, rejected, i) ==
    IF i > n THEN n
    ELSE countAccepted(n, rejected, i + 1) - (IF i \in rejected THEN 1 ELSE 0)
insertAnswer(lines, parsed, rejected) ==
    LET n == IF BatchHasErrors(rejected)
             THEN countAccepted(Len(parsed.statements), rejected, 1) ELSE parsed.n
        status == IF n # Len(lines) THEN statusWarning ELSE statusOK
    IN  InsertResponse("written", StatusOK, status, "processed", n, Len(lines))

\* the count and status of the mask build, after Store.Batch
insertAnswerMask(lines, parsed, rejected) ==
    LET skipped == parsed.n + (IF BatchHasErrors(rejected)
                               THEN Cardinality(rejected \cap (1..Len(parsed.statements)))
                               ELSE 0)
        status == IF skipped > 0 THEN statusWarning ELSE statusOK
        n == Len(lines)
    IN  InsertResponse("written", StatusOK, status, "processed", n - skipped, n)

NoQueryResponse == QueryResponse(0, "none", "", FALSE, QueryArgsErr("unset"))

\* the whole handler of the epoch build: the response, what went to
\* Store.Batch and the store afterwards; rejected is the store's verdict
handlerInsert(s, req, rejected) ==
    LET refusal == insertRefusal(req)
        lines == Split(req.body)
        parsed == parseByOffset(lines, req.now)
        failed == rejected \cap (1..Len(parsed.statements))
    IN  IF refusal # NoInsertResponse THEN [resp |-> refusal, batch |-> NoBatch, store |-> s]
        ELSE IF parsed.panic THEN [resp |-> InsertPanic, batch |-> NoBatch, store |-> s]
        ELSE [resp |-> insertAnswer(lines, parsed, failed),
              batch |-> [submitted |-> TRUE, statements |-> parsed.statements,
                         mapping |-> parsed.mapping, rejected |-> failed],
              store |-> StoreBatch(s, parsed.statements, failed)]

\* the whole handler of the mask build
handlerInsertMask(s, req, rejected) ==
    LET refusal == insertRefusal(req)
        lines == Split(req.body)
        parsed == parseByGroups(lines, req.now)
        failed == rejected \cap (1..Len(parsed.statements))
    IN  IF refusal # NoInsertResponse THEN [resp |-> refusal, batch |-> NoBatch, store |-> s]
        ELSE IF parsed.panic THEN [resp |-> InsertPanic, batch |-> NoBatch, store |-> s]
        ELSE [resp |-> insertAnswerMask(lines, parsed, failed),
              batch |-> [submitted |-> TRUE, statements |-> parsed.statements,
                         mapping |-> parsed.mapping, rejected |-> failed],
              store |-> StoreBatch(s, parsed.statements, failed)]


(* ---- no request in hand ------------------------------------------------ *)
IdleInsertRequest == [method |-> "", readOk |-> FALSE, body |-> <<>>, now |-> 0]
NoTwin == [resp |-> NoInsertResponse, batch |-> NoBatch, store |-> NoKeys]
InsertIdle ==
    iReq = IdleInsertRequest /\ iBatch = NoBatch /\ iResp = NoInsertResponse /\ twin = NoTwin
QueryIdle == qReq = [method |-> "", key |-> <<>>, start |-> [ok |-> FALSE, v |-> 0],
                     end |-> [ok |-> FALSE, v |-> 0], queryErr |-> FALSE]
             /\ qResp = NoQueryResponse

(* ---- main, dump and the goroutines --------------------------------------- *)
NoFile == [state |-> "absent", data |-> NoKeys]
DumpOf(buf) == [state |-> "dump", data |-> buf]
\* bytes Store.Load refuses: a damaged dump, or what a failed write left behind
Garbage == [state |-> "garbage", data |-> NoKeys]

DumpCallers == {"ticker", "shutdown"}
\* where dump() returns to: the loop on time.Tick, the line after s.dump(dumpFile)
ReturnPc(c) == IF c = "ticker" THEN "wait" ELSE "shutdown"

\* os.Stat: errors.Is(err, os.ErrNotExist)
statNotExist(f) == f.state = "absent"

\* Store.Load on the bytes read
loadFails(f) == f.state # "dump"

\* main after Store.Load: [pc, startup, store]
\* (afterLoadIgnoringError: a main that goes on when Load fails)
afterLoadIgnoringError(f, s) ==
    [pc |-> "spawn", startup |-> "loaded", store |-> IF loadFails(f) THEN s ELSE f.data]
afterLoad(f, s) ==
    IF loadFails(f) THEN [pc |-> "fatal", startup |-> "loadFailed", store |-> s]
    ELSE [pc |-> "spawn", startup |-> "loaded", store |-> f.data]

\* dump(): the locals buf and err
NoBuf == [err |-> FALSE, bytes |-> NoKeys]
\* buf, err := s.store.Dump(), which fails when failed
storeDump(s, failed) == IF failed THEN [err |-> TRUE, bytes |-> NoKeys] ELSE [err |-> FALSE, bytes |-> s]

\* dump() after Store.Dump: log and return on an error, else go on to WriteFile
\* (dumpAfterSerializeIgnoringError: a dump that writes whatever Dump returned)
dumpAfterSerializeIgnoringError(err) == "writing"
dumpAfterSerialize(err) == IF err THEN "dumpFailed" ELSE "writing"

\* os.WriteFile(f, buf, 0660): the file afterwards.  A failed write leaves the
\* file as it was (it could not be opened) or damaged (it was truncated first)
writeFile(f, bytes, outcome) ==
    CASE outcome = "written" -> DumpOf(bytes)
      [] outcome = "unopened" -> f
      [] outcome = "damaged" -> Garbage
WriteOutcomes == {"written", "unopened", "damaged"}

\* dump() after os.WriteFile: log the error, or the size, and return
dumpAfterWrite(c, outcome) == IF outcome = "written" THEN ReturnPc(c) ELSE "writeFailed"

\* Store.TrimLeft
TrimLeft(s, cutoff) == [k \in DOMAIN s |-> {t \in s[k] : t >= cutoff}]
\* the retention goroutine's tick at the instant now
trimTick(s, retentionPolicy, now) ==
    TrimLeft(s, Truncate(now - retentionPolicy * 86400, sequenceFrequency))

\* the shutdown goroutine between <-sig and close(closed): dump first
\* (afterSignalShutdownFirst: a goroutine that goes to Server.Shutdown at once)
afterSignalShutdownFirst == "shutdown"
afterSignal == "dumping"

\* <-closed at the end of main
\* (closedNotAwaited: a main that returns without receiving from closed)
closedNotAwaited(shutdownPc) == TRUE
closedReceived(shutdownPc) == shutdownPc = "closed"

\* Server.Shutdown returns once no connection is active or the context is done
shutdownReturns(active, done) == active = 0 \/ done

Alive == pc.main \notin {"exited", "fatal"}
\* Server.Shutdown was called
InShutdown == pc.shutdown \in {"draining", "closed"}

InitialFiles == {NoFile, Garbage, DumpOf([k \in {<<"k", "2">>} |-> {15}])}
Configs == [dumpInterval : {0, 5}, retentionPolicy : {0, 1}]
NoCounts == [ticks |-> 0, trims |-> 0, requests |-> 0, dumpCalls |-> 0, dumpReturns |-> 0,
             writes |-> 0]

LifeIdle ==
    /\ cfg = [dumpInterval |-> 0, retentionPolicy |-> 0]
    /\ file = NoFile /\ file0 = NoFile
    /\ pc = [main |-> "serving", ticker |-> "unborn", trimmer |-> "unborn", shutdown |-> "waitSig"]
    /\ startup = "empty"
    /\ dumpBuf = [c \in DumpCallers |-> NoBuf]
    /\ listener = "open" /\ inflight = 0 /\ ctxDone = FALSE /\ drain = "none"
    /\ counts = NoCounts

Init ==
    /\ build \in Builds
    /\ store = NoKeys
    /\ QueryIdle /\ InsertIdle
    /\ cfg \in Configs
    /\ file \in InitialFiles /\ file0 = file
    /\ pc = [main |-> "stat", ticker |-> "unborn", trimmer |-> "unborn", shutdown |-> "unborn"]
    /\ startup = "pending"
    /\ dumpBuf = [c \in DumpCallers |-> NoBuf]
    /\ listener = "none" /\ inflight = 0 /\ ctxDone = FALSE /\ drain = "none"
    /\ counts = NoCounts

requestVars == <<build, queryVars, insertVars>>

\* os.Stat(dumpFile)
MainStat ==
    /\ pc.main = "stat"
    /\ IF statNotExist(file)
       THEN pc' = [pc EXCEPT !.main = "spawn"] /\ startup' = "empty"
       ELSE pc' = [pc EXCEPT !.main = "read"] /\ UNCHANGED startup
    /\ UNCHANGED <<requestVars, store, cfg, file, file0, dumpBuf, listener,
                   inflight, ctxDone, drain, counts>>

\* os.ReadFile(dumpFile), which may fail
MainReadFile ==
    /\ pc.main = "read"
    /\ \E err \in BOOLEAN :
          IF err THEN pc' = [pc EXCEPT !.main = "fatal"] /\ startup' = "readFailed"
          ELSE pc' = [pc EXCEPT !.main = "load"] /\ UNCHANGED startup
    /\ UNCHANGED <<requestVars, store, cfg, file, file0, dumpBuf, listener,
                   inflight, ctxDone, drain, counts>>

\* s.store.Load(f)
MainLoad ==
    /\ pc.main = "load"
    /\ LET next == afterLoad(file, store)
       IN  pc' = [pc EXCEPT !.main = next.pc] /\ startup' = next.startup /\ store' = next.store
    /\ UNCHANGED <<requestVars, cfg, file, file0, dumpBuf, listener,
                   inflight, ctxDone, drain, counts>>

\* the three go statements
MainSpawn ==
    /\ pc.main = "spawn"
    /\ pc' = [main |-> "listen",
              ticker |-> IF cfg.dumpInterval > 0 THEN "wait" ELSE "unborn",
              trimmer |-> IF cfg.retentionPolicy > 0 THEN "wait" ELSE "unborn",
              shutdown |-> "waitSig"]
    /\ UNCHANGED <<requestVars, store, cfg, file, file0, startup, dumpBuf, listener,
                   inflight, ctxDone, drain, counts>>

\* httpServer.ListenAndServe() is entered: ErrServerClosed at once when Shutdown
\* was already called, else the address is bound, or log.Fatal when it cannot be
MainListenAndServe ==
    /\ pc.main = "listen"
    /\ \/ InShutdown /\ pc' = [pc EXCEPT !.main = "waitClosed"] /\ UNCHANGED <<listener, startup>>
       \/ ~InShutdown /\ pc' = [pc EXCEPT !.main = "serving"] /\ listener' = "open"
          /\ UNCHANGED startup
       \/ ~InShutdown /\ pc' = [pc EXCEPT !.main = "fatal"] /\ UNCHANGED <<listener, startup>>
    /\ UNCHANGED <<requestVars, store, cfg, file, file0, dumpBuf,
                   inflight, ctxDone, drain, counts>>

\* ListenAndServe returns ErrServerClosed after Shutdown closed the listener
MainServeReturns ==
    /\ pc.main = "serving"
    /\ InShutdown
    /\ pc' = [pc EXCEPT !.main = "waitClosed"]
    /\ UNCHANGED <<requestVars, store, cfg, file, file0, startup, dumpBuf, listener,
                   inflight, ctxDone, drain, counts>>

\* <-closed, then main returns
MainWaitClosed ==
    /\ pc.main = "waitClosed"
    /\ closedReceived(pc.shutdown)
    /\ pc' = [pc EXCEPT !.main = "exited"]
    /\ UNCHANGED <<requestVars, store, cfg, file, file0, startup, dumpBuf, listener,
                   inflight, ctxDone, drain, counts>>

\* a tick of time.Tick(dumpInterval): the goroutine calls s.dump(dumpFile)
DumpTick ==
    /\ Alive
    /\ pc.ticker = "wait"
    /\ counts.ticks < MaxTicks
    /\ pc' = [pc EXCEPT !.ticker = "dumping"]
    /\ counts' = [counts EXCEPT !.ticks = @ + 1]
    /\ UNCHANGED <<requestVars, store, cfg, file, file0, startup, dumpBuf, listener,
                   inflight, ctxDone, drain>>

\* dump() of caller c: buf, err := s.store.Dump()
DumpSerialize(c) ==
    /\ Alive
    /\ pc[c] = "dumping"
    /\ \E failed \in BOOLEAN :
          LET out == storeDump(store, failed)
          IN  /\ pc' = [pc EXCEPT ![c] = dumpAfterSerialize(out.err)]
              /\ dumpBuf' = [dumpBuf EXCEPT ![c] = out]
    /\ UNCHANGED <<requestVars, store, cfg, file, file0, startup, listener,
                   inflight, ctxDone, drain, counts>>

\* dump() of caller c: os.WriteFile; on success the size is logged and dump returns
DumpWriteFile(c) ==
    /\ Alive
    /\ pc[c] = "writing"
    /\ \E outcome \in WriteOutcomes :
          /\ file' = writeFile(file, dumpBuf[c].bytes, outcome)
          /\ pc' = [pc EXCEPT ![c] = dumpAfterWrite(c, outcome)]
          /\ dumpBuf' = [dumpBuf EXCEPT ![c] = IF outcome = "written" THEN NoBuf ELSE @]
          /\ counts' = [counts EXCEPT
                !.dumpReturns = IF c = "shutdown" /\ outcome = "written" THEN @ + 1 ELSE @,
                !.writes = IF outcome = "written"
                              /\ pc.shutdown \in {"dumping", "dumpFailed", "writing",
                                                  "writeFailed", "shutdown"}
                           THEN @ + 1 ELSE @]
    /\ UNCHANGED <<requestVars, store, cfg, file0, startup, listener,
                   inflight, ctxDone, drain>>

\* dump() of caller c: log.Printf of the error, return
DumpLogError(c) ==
    /\ Alive
    /\ pc[c] \in {"dumpFailed", "writeFailed"}
    /\ pc' = [pc EXCEPT ![c] = ReturnPc(c)]
    /\ dumpBuf' = [dumpBuf EXCEPT ![c] = NoBuf]
    /\ counts' = [counts EXCEPT !.dumpReturns = IF c = "shutdown" THEN @ + 1 ELSE @]
    /\ UNCHANGED <<requestVars, store, cfg, file, file0, startup, listener,
                   inflight, ctxDone, drain>>

\* a tick of time.Tick(86400 s): Store.TrimLeft at the instant now
TrimNows == {86400 + 105}
TrimTick ==
    /\ Alive
    /\ pc.trimmer = "wait"
    /\ counts.trims < MaxTrims
    /\ \E now \in TrimNows : store' = trimTick(store, cfg.retentionPolicy, now)
    /\ counts' = [counts EXCEPT !.trims = @ + 1]
    /\ UNCHANGED <<requestVars, cfg, file, file0, pc, startup, dumpBuf, listener,
                   inflight, ctxDone, drain>>

\* SIGTERM or SIGINT arrives: <-sig, then the goroutine calls s.dump(dumpFile)
Signal ==
    /\ Alive
    /\ pc.shutdown = "waitSig"
    /\ pc' = [pc EXCEPT !.shutdown = afterSignal]
    /\ counts' = [counts EXCEPT !.dumpCalls = IF afterSignal = "dumping" THEN @ + 1 ELSE @]
    /\ UNCHANGED <<requestVars, store, cfg, file, file0, startup, dumpBuf, listener,
                   inflight, ctxDone, drain>>

\* context.WithTimeout(3 s) and httpServer.Shutdown(ctx): the listener closes
CallShutdown ==
    /\ Alive
    /\ pc.shutdown = "shutdown"
    /\ pc' = [pc EXCEPT !.shutdown = "draining"]
    /\ listener' = IF listener = "open" THEN "closed" ELSE listener
    /\ UNCHANGED <<requestVars, store, cfg, file, file0, startup, dumpBuf,
                   inflight, ctxDone, drain, counts>>

\* the 3 seconds of the context pass
CtxTimeout ==
    /\ Alive
    /\ pc.shutdown = "draining"
    /\ ~ctxDone
    /\ ctxDone' = TRUE
    /\ UNCHANGED <<requestVars, store, cfg, file, file0, pc, startup, dumpBuf,
                   listener, inflight, drain, counts>>

\* httpServer.Shutdown returns, then close(closed)
ShutdownReturns ==
    /\ Alive
    /\ pc.shutdown = "draining"
    /\ shutdownReturns(inflight, ctxDone)
    /\ drain' = IF inflight = 0 THEN "drained" ELSE "timeout"
    /\ pc' = [pc EXCEPT !.shutdown = "closed"]
    /\ UNCHANGED <<requestVars, store, cfg, file, file0, startup, dumpBuf,
                   listener, inflight, ctxDone, counts>>

\* the listener accepts a request
Accept ==
    /\ Alive
    /\ listener = "open"
    /\ counts.requests < MaxRequests
    /\ inflight' = inflight + 1
    /\ counts' = [counts EXCEPT !.requests = @ + 1]
    /\ UNCHANGED <<requestVars, store, cfg, file, file0, pc, startup, dumpBuf,
                   listener, ctxDone, drain>>

\* a request in flight is handled: an insert the store accepts
ServedRequests ==
    {[method |-> "POST", readOk |-> TRUE, body |-> <<"k", "1", " ", "1">>, now |-> 100]}
Serve ==
    /\ Alive
    /\ inflight > 0
    /\ \E req \in ServedRequests :
          store' = IF build = "epoch" THEN handlerInsert(store, req, {}).store
                   ELSE handlerInsertMask(store, req, {}).store
    /\ inflight' = inflight - 1
    /\ UNCHANGED <<requestVars, cfg, file, file0, pc, startup, dumpBuf,
                   listener, ctxDone, drain, counts>>

MainStep ==
    \/ MainStat \/ MainReadFile \/ MainLoad \/ MainSpawn
    \/ MainListenAndServe \/ MainServeReturns \/ MainWaitClosed
ShutdownStep ==
    \/ DumpSerialize("shutdown") \/ DumpWriteFile("shutdown") \/ DumpLogError("shutdown")
    \/ CallShutdown \/ ShutdownReturns

Next ==
    \/ MainStep
    \/ ShutdownStep
    \/ DumpTick \/ DumpSerialize("ticker") \/ DumpWriteFile("ticker") \/ DumpLogError("ticker")
    \/ TrimTick
    \/ Signal
    \/ CtxTimeout
    \/ Accept \/ Serve

Spec == Init /\ [][Next]_vars

\* the scheduler runs main and the shutdown goroutine whenever they can take a
\* step, and the timer of the context fires
LiveSpec == Spec /\ WF_vars(MainStep) /\ WF_vars(ShutdownStep) /\ WF_vars(CtxTimeout)

(* ---- the query specification ------------------------------------------- *)
RECURSIVE TableSet(_)
TableSet(i) == IF i = 0 THEN {} ELSE {aggregations[i]} \cup TableSet(i - 1)
AggregationTable == TableSet(Len(aggregations))

\* the largest scope each table entry still accepts, and the scope after it
Thresholds == {(maxNumberOfPoints + 1) * v - 1 : v \in AggregationTable}
Starts == (0 - MaxStart)..MaxStart
Ends == (0..MaxSlack) \cup {5700 + d : d \in 0..MaxSlack}
        \cup {t + d : t \in Thresholds, d \in (0 - MaxStart)..MaxSlack}
ParseOutcomes(S) == {[ok |-> FALSE, v |-> 0]} \cup {[ok |-> TRUE, v |-> n] : n \in S}
QueryKeys == {<<"k", "1">>, <<"m", "i", "s", "s", "i", "n", "g">>}
QueryStore == [k \in {<<"k", "1">>} |-> {0}]

QueryRequests ==
    [method : {"GET", "POST"}, key : QueryKeys, start : ParseOutcomes(Starts),
     end : ParseOutcomes(Ends), queryErr : BOOLEAN]

InitQuery ==
    /\ build \in Builds
    /\ store = QueryStore
    /\ qReq \in QueryRequests
    /\ qResp = NoQueryResponse
    /\ InsertIdle
    /\ LifeIdle

ServeQuery ==
    /\ build = "epoch"
    /\ qResp = NoQueryResponse
    /\ qResp' = handlerQuery(store, qReq)
    /\ UNCHANGED <<build, store, qReq, insertVars, lifeVars>>

ServeQueryMask ==
    /\ build = "mask"
    /\ qResp = NoQueryResponse
    /\ qResp' = handlerQueryMask(store, qReq)
    /\ UNCHANGED <<build, store, qReq, insertVars, lifeVars>>

NextQuery == ServeQuery \/ ServeQueryMask

SpecQuery == InitQuery /\ [][NextQuery]_vars

(* ---- the insert specification ------------------------------------------ *)
InsertLines == {
    <<>>,
    <<"k", "1", " ", "1">>,
    <<"k", "2", " ", "0", " ", "1", "6">>,
    <<"K", "_", "3", " ", "2", " ", "0", "3", "0">>,
    <<"b", "a", "d", "l", "i", "n", "e">>,
    <<"k", "1", " ", "3">>,
    <<"k", "1", " ", "1", " ", "9", "9", "9", "9", "9", "9", "9", "9", "9", "9", "9", "9", "9", "9", "9", "9", "9", "9", "9", "9">>
    }
RECURSIVE JoinLines(_)
JoinLines(ls) ==
    IF ls = <<>> THEN <<>>
    ELSE IF Len(ls) = 1 THEN ls[1]
    ELSE ls[1] \o <<"\n">> \o JoinLines(Tail(ls))
\* "k1 1\nk2 0\nbadline\nk3 1"
ExampleBody == <<"k", "1", " ", "1", "\n", "k", "2", " ", "0", "\n", "b", "a", "d", "l", "i", "n", "e", "\n", "k", "3", " ", "1">>
Bodies == {JoinLines(ls) : ls \in UNION {[1..n -> InsertLines] : n \in 0..MaxLines}}
          \cup {ExampleBody}
\* time.Now() of the request, in unix seconds: one instant off the grain, one on it
Nows == {100, 105}
InsertRequests == [method : {"POST", "GET"}, readOk : BOOLEAN, body : Bodies, now : Nows]

InitInsert ==
    /\ build \in Builds
    /\ store = NoKeys
    /\ iReq \in InsertRequests
    /\ iBatch = NoBatch
    /\ iResp = NoInsertResponse
    /\ twin = NoTwin
    /\ QueryIdle
    /\ LifeIdle

ServeInsert ==
    /\ build = "epoch"
    /\ iResp = NoInsertResponse
    /\ \E rejected \in SUBSET (1..Len(Split(iReq.body))) :
          LET out == handlerInsert(store, iReq, rejected)
          IN  iResp' = out.resp /\ iBatch' = out.batch /\ store' = out.store
    /\ UNCHANGED <<build, iReq, twin, queryVars, lifeVars>>

ServeInsertMask ==
    /\ build = "mask"
    /\ iResp = NoInsertResponse
    /\ \E rejected \in SUBSET (1..Len(Split(iReq.body))) :
          LET out == handlerInsertMask(store, iReq, rejected)
          IN  iResp' = out.resp /\ iBatch' = out.batch /\ store' = out.store
    /\ UNCHANGED <<build, iReq, twin, queryVars, lifeVars>>

NextInsert == ServeInsert \/ ServeInsertMask

SpecInsert == InitInsert /\ [][NextInsert]_vars

(* ---- the two insert handlers side by side ------------------------------- *)
\* the same request, the same time.Now() and the same verdicts of the store go
\* to both handlers: the epoch build's outcome is kept in iResp, iBatch and
\* store, the mask build's in twin
InitEquiv == InitInsert /\ build = "epoch"

ServeBoth ==
    /\ iResp = NoInsertResponse
    /\ \E rejected \in SUBSET (1..Len(Split(iReq.body))) :
          LET out == handlerInsert(store, iReq, rejected)
          IN  /\ iResp' = out.resp /\ iBatch' = out.batch /\ store' = out.store
              /\ twin' = handlerInsertMask(store, iReq, rejected)
    /\ UNCHANGED <<build, iReq, queryVars, lifeVars>>

NextEquiv == ServeBoth

SpecEquiv == InitEquiv /\ [][NextEquiv]_vars

(* ---- claims on startup, dump and shutdown (checked under Spec, LiveSpec) --- *)
\* the window of C4: from the signal to the call of Server.Shutdown
SignalReceived == pc.shutdown \notin {"unborn", "waitSig"}
Stopped == pc.main \in {"exited", "fatal"}
InDump(c) == pc[c] \in {"dumping", "dumpFailed", "writing", "writeFailed"}

\* C4 (as stated): with a dump interval configured, exactly one dump is written
\* between the signal and the moment the listener is told to stop.
C4_AsStated == (cfg.dumpInterval > 0 /\ InShutdown) => counts.writes = 1

\* C4 (amended): after the signal the shutdown goroutine calls dump exactly once
\* and that call has returned, the file written or the failure logged, before
\* the listener is told to stop; the dump timer keeps running, so the number of
\* dumps written in that window is not fixed (none when the shutdown's dump
\* fails, two when a tick of the timer falls in the window).
C4_OneDumpCallBeforeShutdown ==
    /\ ~SignalReceived => counts.dumpCalls = 0 /\ counts.writes = 0
    /\ InDump("shutdown") =>
            counts.dumpCalls = 1 /\ counts.dumpReturns = 0 /\ listener # "closed"
    /\ (SignalReceived /\ ~InDump("shutdown")) =>
            counts.dumpCalls = 1 /\ counts.dumpReturns = 1
    /\ listener = "closed" => InShutdown /\ counts.dumpReturns = 1

\* the listener was told to stop after two dumps were written in the window
C4_Witness == cfg.dumpInterval > 0 /\ InShutdown /\ counts.writes = 2

\* C8: a dump whose serialization fails attempts no write and leaves the file as
\* it was; neither a serialization failure nor a write failure ends the process
\* or the goroutine: after logging, the caller is back where dump was called
\* from, the timer loop waiting for its next tick, and every tick calls dump.
C8_FailedDumpIsLoggedOnly ==
    [][\A c \in DumpCallers :
          /\ pc'[c] = "writing" => ~dumpBuf'[c].err
          /\ (pc[c] = "dumping" /\ dumpBuf'[c].err) => pc'[c] = "dumpFailed" /\ file' = file
          /\ (pc[c] \in {"dumpFailed", "writeFailed"} /\ pc'[c] # pc[c]) =>
                /\ pc'[c] = ReturnPc(c)
                /\ file' = file
                /\ pc'.main = pc.main
          /\ counts'.ticks # counts.ticks => pc.ticker = "wait" /\ pc'.ticker = "dumping"
      ]_vars

\* the write of the first tick's dump failed and damaged the file; the process
\* went on, the second tick called dump again, and this time the serialization
\* failed: no write is attempted and the file stays as the first dump left it
C8_Witness ==
    /\ Alive /\ pc.shutdown = "waitSig"
    /\ counts.ticks = 2
    /\ pc.ticker = "dumpFailed"
    /\ file0 = NoFile /\ file = Garbage

\* C9: main goes on to its goroutines and listener only with a store that
\* started empty because the file was absent, or that was loaded from the file;
\* when the file cannot be read or loaded, main stops before any dump, trim or
\* request, and the file is as the process found it.
Proceeded == pc.main \in {"spawn", "listen", "serving", "waitClosed", "exited"}
Untouched ==
    /\ file = file0 /\ store = NoKeys /\ counts = NoCounts
    /\ listener = "none" /\ inflight = 0
    /\ pc.ticker = "unborn" /\ pc.trimmer = "unborn" /\ pc.shutdown = "unborn"
C9_StartupGate ==
    /\ Proceeded => startup \in {"empty", "loaded"}
    /\ startup = "empty" => file0 = NoFile
    /\ startup = "loaded" => file0.state = "dump"
    /\ pc.main = "spawn" => store = (IF startup = "empty" THEN NoKeys ELSE file0.data)
    /\ file0.state = "garbage" => startup \in {"pending", "readFailed", "loadFailed"}
    /\ startup \in {"pending", "readFailed", "loadFailed"} => Untouched
    /\ startup \in {"readFailed", "loadFailed"} => pc.main = "fatal"

\* a damaged dump file stopped main, and is still there
C9_Witness == startup = "loadFailed" /\ pc.main = "fatal" /\ file = Garbage

\* C10: once the signal is received the process eventually stops, whether or
\* not the shutdown's dump succeeded; main returns only after Server.Shutdown
\* returned, drained or timed out; no request is accepted once Server.Shutdown
\* was called.
C10_ShutdownCompletes ==
    /\ SignalReceived ~> Stopped
    /\ [][/\ pc'.main = "exited" =>
                /\ pc'.shutdown = "closed"
                /\ drain' \in {"drained", "timeout"}
                /\ drain' = "timeout" => ctxDone'
          /\ InShutdown => counts'.requests = counts.requests
         ]_vars

\* main returned after a shutdown whose dump wrote nothing and whose drain timed out
C10_Witness == pc.main = "exited" /\ counts.writes = 0 /\ drain = "timeout"

(* ---- claims on the insert path (checked under SpecInsert) ---------------- *)
\* the handler ran on a POST whose body was read
InsertHandled == iReq.method = "POST" /\ iReq.readOk /\ iResp # NoInsertResponse
InsertAnswered == InsertHandled /\ iResp.kind = "written"
LineCount == 1 + Cardinality({i \in 1..Len(iReq.body) : iReq.body[i] = "\n"})
InputLines == Split(iReq.body)
MatchingLines == {i \in 1..Len(InputLines) : validStatementMatch(InputLines[i])}
Accepted == Cardinality(MatchingLines) - Cardinality(iBatch.rejected)
CountsAgree ==
    /\ iResp.message = "processed"
    /\ iResp.total = LineCount
    /\ iResp.processed = Accepted
    /\ 0 <= iResp.processed /\ iResp.processed <= iResp.total
StatusAgrees ==
    /\ iResp.code = StatusOK
    /\ iResp.status \in {statusOK, statusWarning}
    /\ iResp.status = statusOK <=> Accepted = LineCount
    /\ (iReq.body = ExampleBody /\ iBatch.rejected = {}) =>
            iResp.status = statusWarning /\ iResp.processed = 3 /\ iResp.total = 4

\* C2: every body handled by POST /insert/ is answered "processed X/Y", Y the
\* number of lines of the body, X the number of lines that matched the grammar
\* and were accepted by the store, 0 <= X <= Y.
C2_ProcessedCount == InsertHandled => iResp.kind = "written" /\ CountsAgree

\* C3: a POST /insert/ whose body was read is always answered with code 200,
\* status "ok" exactly when every line was accepted and "warning" otherwise; the
\* body "k1 1\nk2 0\nbadline\nk3 1" with nothing rejected gives "warning", 3/4.
C3_AlwaysAnswered200 == InsertHandled => iResp.kind = "written" /\ StatusAgrees

\* what is left of C2 and C3 on the requests that do get an answer
InsertAnswerIsAccurate == InsertAnswered => CountsAgree /\ StatusAgrees
\* the requests that get none hold a matching line whose timestamp Atoi refuses
PanicOnlyOnTimestampOutOfRange ==
    (InsertHandled /\ iResp.kind = "panic") =>
        \E i \in MatchingLines :
            LET line == InputLines[i]
                p == IndexByte(line, " ")
            IN  Len(line) > p + 2 /\ ~Atoi(SliceFrom(line, p + 3)).ok

\* C11: on every line that matches the grammar the state digit and the
\* timestamp decode, so no request that reaches the parser ends in the
\* "poor validation panic": each one is answered "processed X/Y".
C11_PanicUnreachable ==
    (iReq.method = "POST" /\ iReq.readOk /\ iResp # NoInsertResponse) =>
        /\ iResp # InsertPanic
        /\ iResp.message = "processed"

\* C13: for every request body, the same default instant and the same
\* per-item verdicts of the store, the handler that re-parses by byte offset
\* and the handler that reads the capture groups build the same ordered
\* statements, map each statement to the same line, leave the store the same,
\* and end alike: the same refusal, the same status and "processed X/Y", or
\* the same panic.  (The epoch build's mapping slice has len(lines) entries,
\* of which only the first len(statements) are ever read: those are compared.)
C13_HandlersEquivalent ==
    iResp # NoInsertResponse =>
        /\ twin.resp = iResp
        /\ twin.batch.submitted = iBatch.submitted
        /\ twin.batch.statements = iBatch.statements
        /\ twin.batch.rejected = iBatch.rejected
        /\ Len(twin.batch.mapping) = Len(twin.batch.statements)
        /\ \A i \in 1..Len(iBatch.statements) : twin.batch.mapping[i] = iBatch.mapping[i]
        /\ twin.store = store

\* three lines, the first one skipped by the grammar, two statements built, one
\* of them with an explicit timestamp, one refused by the store: both handlers
\* answered "warning", processed 1/3
C13_Witness ==
    /\ iResp.kind = "written" /\ twin.resp.kind = "written"
    /\ iResp.status = statusWarning /\ iResp.processed = 1 /\ iResp.total = 3
    /\ Len(twin.batch.statements) = 2 /\ twin.batch.mapping = <<1, 2>>
    /\ Cardinality(iBatch.rejected) = 1
    /\ \E i \in 1..2 : twin.batch.statements[i].Timestamp = 16

\* the line a statement of the batch was built from
LineOfStatement(i) == InputLines[iBatch.mapping[i] + 1]
Spaces(line) == {j \in 1..Len(line) : line[j] = " "}
HasExplicitTimestamp(line) == Cardinality(Spaces(line)) = 2
\* the timestamp token of a line that has one, as a number
ExplicitTimestamp(line) ==
    LET last == CHOOSE j \in Spaces(line) : \A k \in Spaces(line) : k <= j
    IN  DecimalValue(SubSeq(line, last + 1, Len(line)), 0)
Aligned(t) == t % sequenceFrequency = 0
ExplicitStatements ==
    {i \in 1..Len(iBatch.statements) : HasExplicitTimestamp(LineOfStatement(i))}

QueryServed == qResp # NoQueryResponse
QueryParsed == qReq.method = "GET" /\ qReq.start.ok /\ qReq.end.ok
\* the start instant newQueryArgs compares and subtracts
NormalizedStart ==
    IF build = "epoch" THEN ceilInt64(qReq.start.v, sequenceFrequency) ELSE qReq.start.v

Fits(scope, v) == scope \div v <= maxNumberOfPoints
FirstFit(scope, v) ==
    /\ v \in AggregationTable
    /\ Fits(scope, v)
    /\ \A w \in AggregationTable : w < v => ~Fits(scope, w)
NoneFits(scope) == \A w \in AggregationTable : ~Fits(scope, w)

SelectionFor(scope) ==
    /\ NoneFits(scope) <=> qResp.message = "range is too large"
    /\ ~NoneFits(scope) => qResp.args.err = "" /\ FirstFit(scope, qResp.args.interval)

\* C1 (as stated): for every request with start <= end the interval is the first
\* table entry v with (end - start) div v <= 380, end - start being the requested
\* range, "range is too large" exactly when none fits; 5700 s gives 15, 5701 s gives 30.
\* Stated for the starts >= 0, where ceilInt64 is the ceiling.
C1_AsStated ==
    (QueryServed /\ QueryParsed /\ 0 <= qReq.start.v /\ qReq.start.v <= qReq.end.v) =>
        LET scope == qReq.end.v - qReq.start.v
        IN  /\ SelectionFor(scope)
            /\ scope = 5700 => qResp.args.interval = 15
            /\ scope = 5701 => qResp.args.interval = 30

\* C1 (amended): for every request (start and end below 2^61 in magnitude, so
\* that no int64 overflows) whose normalized start (ceilInt64(start, 15) in
\* the epoch build, the parsed start in the mask build) is <= end, the interval is
\* the first table entry v with (end - normalized start) div v <= 380, and the
\* request fails with "range is too large" exactly when no entry fits; a scope of
\* 5700..5714 s gives 15 and a scope of 5715 s gives 30.
C1_FirstFitOfNormalizedScope ==
    (QueryServed /\ QueryParsed /\ NormalizedStart <= qReq.end.v) =>
        LET scope == qReq.end.v - NormalizedStart
        IN  /\ SelectionFor(scope)
            /\ scope \in 5700..5714 => qResp.args.interval = 15
            /\ scope = 5715 => qResp.args.interval = 30

\* requested range 5715 s from an unaligned start: scope 5701 s, interval 15
C1_Witness ==
    /\ QueryServed /\ QueryParsed /\ build = "epoch"
    /\ qReq.start.v = 1 /\ qReq.end.v = 5716
    /\ qResp.args.interval = 15

\* C5: a GET /query/ with valid start and end for a key that is not in the store
\* is answered 400 "key does not exist" and Store.Query is never invoked.
C5_MissingKeyIsClientError ==
    (QueryServed /\ QueryParsed /\ qResp.args.err = "" /\ ~StoreGet(store, qReq.key)) =>
        /\ qResp.code = StatusBadRequest
        /\ qResp.message = "key does not exist"
        /\ ~qResp.queried

\* C6 (as stated): "range is not valid" if and only if the requested start is
\* greater than the requested end; every returned QueryArgs has start <= end
\* and an interval of the table.  Stated for the starts >= 0, where ceilInt64 is
\* the ceiling.
C6_AsStated ==
    (QueryServed /\ QueryParsed /\ 0 <= qReq.start.v) =>
        /\ qResp.message = "range is not valid" <=> qReq.start.v > qReq.end.v
        /\ qResp.args.err = "" =>
                qResp.args.start <= qResp.args.end /\ qResp.args.interval \in AggregationTable

\* C6 (amended): for start and end below 2^61 in magnitude (no int64
\* overflows), "range is not valid" if and only if the normalized start
\* (ceilInt64(start, 15) in the epoch build, the parsed start in the mask build)
\* is greater than the end; every returned QueryArgs has start <= end, its start
\* being the normalized start, and an interval of the table.
C6_RangeValidatedAfterNormalization ==
    (QueryServed /\ QueryParsed) =>
        /\ qResp.message = "range is not valid" <=> NormalizedStart > qReq.end.v
        /\ qResp.args.err = "" =>
                /\ qResp.args.start = NormalizedStart
                /\ qResp.args.end = qReq.end.v
                /\ qResp.args.start <= qResp.args.end
                /\ qResp.args.interval \in AggregationTable

\* C12: for every integer start, positive, zero or negative, the normalized
\* start computed by ceilInt64(start, 15) is the smallest multiple of 15 that
\* is >= start, so normalized - start is in 0..14.  Read off the QueryArgs the
\* epoch build returns, whose start is the normalized start.
C12_CeilingForAllIntegers ==
    (QueryServed /\ QueryParsed /\ build = "epoch" /\ qResp.args.err = "") =>
        /\ qResp.args.start % sequenceFrequency = 0
        /\ qResp.args.start - qReq.start.v \in 0..(sequenceFrequency - 1)

\* start 1 <= end 5 is refused: the normalized start is 15
C6_Witness ==
    /\ QueryServed /\ QueryParsed /\ build = "epoch"
    /\ qReq.start.v = 1 /\ qReq.end.v = 5
    /\ qResp.message = "range is not valid"

====
